---- MODULE Spec2Model ----
(***************************************************************************)
(* Model of the examStartScreen Lightning web component                    *)
(* (force-app/main/default/lwc/examStartScreen/examStartScreen.js).        *)
(*                                                                         *)
(* Text (option texts, labels, the data-index attribute) is a sequence of  *)
(* one-character strings, so that the template literal of loadQuestions,   *)
(* split(':')[0].trim() and parseInt(.., 10) are computed character by     *)
(* character.                                                              *)
(*                                                                         *)
(* A handler that dereferences an undefined current question throws before *)
(* it assigns anything, so its action is enabled only where the current    *)
(* question is defined.  The component's template is not part of the       *)
(* source; the handlers are taken to be reachable while the in-progress    *)
(* view is rendered (questionList).                                        *)
(*                                                                         *)
(* Spec is the whole component with its 2:00 timer, over question lists    *)
(* whose questions all carry the options x and y.  SpecHandlers is the     *)
(* component up to the first timer tick, over every question list within   *)
(* the bounds.  SpecLoad is the mounting and the load alone, over          *)
(* questions with up to MaxLabelOptions options.  SpecSaves is the         *)
(* answering of one question with up to MaxRacingSaves saves in flight and  *)
(* a service that keeps the answer of the save that completed last; the    *)
(* other specifications do not look at what the service stored.            *)
(***************************************************************************)
EXTENDS Integers, Sequences, FiniteSets, TLC

VARIABLES
    AttendeId,                  \* @api AttendeId
    examId,                     \* @api examId
    questions,                  \* @track questions
    currentQuestionIndex,       \* @track currentQuestionIndex
    unansweredQuestionNumbers,  \* @track unansweredQuestionNumbers
    showResult,                 \* @track showResult
    result,                     \* @track result
    correct,                    \* @track correct
    wrong,                      \* @track wrong
    questionList,               \* questionList
    minutes,                    \* minutes
    seconds,                    \* seconds
    timerInterval,              \* "unset" | "running" | "cleared"
    connected,                  \* connectedCallback has run
    backend,                    \* the list getQuestionsByExamId resolves with
    loadRequest,                \* "none" | "pending" | "resolved" | "rejected"
    saveRequests,               \* saveOrUpdateResponse calls in flight
    evaluateRequests,           \* evaluateExamResult calls issued so far
    evaluatePending,            \* number of evaluateExamResult calls in flight
    toasts,                     \* ShowToastEvents dispatched
    alerts,                     \* alert() boxes shown
    ticks,                      \* interval callbacks run
    timeUps,                    \* handleTimeUp calls
    submitInvoked,              \* handleSubmit was called from the submit button
    serviceAnswer               \* the answer the service holds per question

vars == <<AttendeId, examId, questions, currentQuestionIndex,
          unansweredQuestionNumbers, showResult, result, correct, wrong,
          questionList, minutes, seconds, timerInterval, connected, backend,
          loadRequest, saveRequests, evaluateRequests, evaluatePending,
          toasts, alerts, ticks, timeUps, submitInvoked, serviceAnswer>>

-----------------------------------------------------------------------------
(* Bounds of the model                                                     *)

MaxQuestions == 2
MaxOptions == 2
MaxLabelOptions == 5
MaxInFlight == 1
MaxRacingSaves == 2

(* Program constants                                                       *)

InitialMinutes == 2
InitialSeconds == 0

-----------------------------------------------------------------------------
(* Text helpers                                                            *)

Undefined == "undefined"
NaN == [nan |-> TRUE, val |-> 0]
Num(n) == [nan |-> FALSE, val |-> n]

Digits == <<"0", "1", "2", "3", "4", "5", "6", "7", "8", "9">>
IsDigit(c) == \E d \in 1..10 : Digits[d] = c
DigitVal(c) == (CHOOSE d \in 1..10 : Digits[d] = c) - 1
IsSpace(c) == c = " "

RECURSIVE DropSpaces(_)
DropSpaces(s) ==
    IF s # <<>> /\ IsSpace(Head(s)) THEN DropSpaces(Tail(s)) ELSE s

RECURSIVE DropTrailingSpaces(_)
DropTrailingSpaces(s) ==
    IF s # <<>> /\ IsSpace(s[Len(s)])
    THEN DropTrailingSpaces(SubSeq(s, 1, Len(s) - 1))
    ELSE s

Trim(s) == DropTrailingSpaces(DropSpaces(s))

RECURSIVE SplitFirst(_, _)
SplitFirst(s, sep) ==
    IF s = <<>> \/ Head(s) = sep THEN <<>>
    ELSE <<Head(s)>> \o SplitFirst(Tail(s), sep)

RECURSIVE DigitPrefix(_, _)
DigitPrefix(s, acc) ==
    IF s # <<>> /\ IsDigit(Head(s))
    THEN DigitPrefix(Tail(s), Num(IF acc.nan THEN DigitVal(Head(s))
                                   ELSE acc.val * 10 + DigitVal(Head(s))))
    ELSE acc

ParseInt(s) ==
    LET t == DropSpaces(s)
        neg == t # <<>> /\ Head(t) = "-"
        body == IF t # <<>> /\ Head(t) \in {"-", "+"} THEN Tail(t) ELSE t
        r == DigitPrefix(body, NaN)
    IN IF r.nan THEN NaN ELSE IF neg THEN Num(0 - r.val) ELSE r

RECURSIVE ToDecimal(_)
ToDecimal(n) ==
    IF n < 0 THEN <<"-">> \o ToDecimal(0 - n)
    ELSE IF n < 10 THEN <<Digits[n + 1]>>
    ELSE ToDecimal(n \div 10) \o <<Digits[(n % 10) + 1]>>

-----------------------------------------------------------------------------
(* loadQuestions: the mapping of the service's result                      *)

labels == <<"A", "B", "C", "D">>

LabelAt(i) ==
    IF i < Len(labels) THEN <<labels[i + 1]>>
    ELSE <<"u", "n", "d", "e", "f", "i", "n", "e", "d">>

OptionLabel(i, opt) == LabelAt(i) \o <<":", " ">> \o opt

MapOption(opt, i) ==
    [label |-> OptionLabel(i, opt), value |-> opt,
     checked |-> FALSE, cssClass |-> "option"]

MapQuestion(q, index) ==
    [questionId |-> q.questionId,
     questionText |-> q.questionText,
     optionList |-> [i \in 1..Len(q.options) |-> MapOption(q.options[i], i - 1)],
     badgeClass |-> "badge unanswered",
     questionNumber |-> index + 1,
     reviewed |-> FALSE]

MapQuestions(res) == [k \in 1..Len(res) |-> MapQuestion(res[k], k - 1)]

-----------------------------------------------------------------------------
(* Inputs                                                                  *)

Attendees == {"att1"}
ExamIds == {Undefined, "exam1"}
OptionTexts == {<<"x">>, <<"y">>}

OptionLists(n) == UNION {[1..m -> OptionTexts] : m \in 1..n}

ServiceQuestion(k, opts) ==
    [questionId |-> k, questionText |-> <<"t">>, options |-> opts]

ServiceResults(nq, no) ==
    UNION {{[k \in 1..n |-> ServiceQuestion(k, f[k])] :
                f \in [1..n -> OptionLists(no)]} : n \in 0..nq}

ResultData ==
    {[result |-> "Pass", correctAnswers |-> 1, incorrectAnswers |-> 0],
     [result |-> "Fail", correctAnswers |-> 0, incorrectAnswers |-> 1]}

DataIndexes ==
    {ToDecimal(n) : n \in 0..(MaxQuestions + 1)}
        \cup {<<"1", "0">>, <<"a", "b", "c">>, <<>>, <<" ", "1", "x">>}

-----------------------------------------------------------------------------
(* Derived values                                                          *)

SomeChecked(q) == \E i \in DOMAIN q.optionList : q.optionList[i].checked

FindChecked(q) ==
    LET hits == {i \in DOMAIN q.optionList : q.optionList[i].checked}
    IN q.optionList[CHOOSE i \in hits : \A j \in hits : i <= j]

LabelPrefix(opt) == Trim(SplitFirst(opt.label, ":"))

Includes(s, v) == \E i \in DOMAIN s : s[i] = v

RECURSIVE Filter(_, _)
Filter(s, v) ==
    IF s = <<>> THEN <<>>
    ELSE IF Head(s) # v THEN <<Head(s)>> \o Filter(Tail(s), v)
    ELSE Filter(Tail(s), v)

CurrentQuestionDefined ==
    currentQuestionIndex >= 0 /\ currentQuestionIndex < Len(questions)

allQuestionsAnswered ==
    Len(questions) > 0 /\ \A k \in DOMAIN questions : SomeChecked(questions[k])

InProgressViewVisible == questionList

-----------------------------------------------------------------------------
(* Construction                                                            *)

Constructed(att, exam, res) ==
    /\ AttendeId = att
    /\ examId = exam
    /\ questions = <<>>
    /\ currentQuestionIndex = 0
    /\ unansweredQuestionNumbers = <<>>
    /\ showResult = FALSE
    /\ result = ""
    /\ correct = 0
    /\ wrong = 0
    /\ questionList = FALSE
    /\ minutes = InitialMinutes
    /\ seconds = InitialSeconds
    /\ timerInterval = "unset"
    /\ connected = FALSE
    /\ backend = res
    /\ loadRequest = "none"
    /\ saveRequests = <<>>
    /\ evaluateRequests = <<>>
    /\ evaluatePending = 0
    /\ toasts = 0
    /\ alerts = 0
    /\ ticks = 0
    /\ timeUps = 0
    /\ submitInvoked = FALSE
    /\ serviceAnswer = [k \in DOMAIN res |-> <<>>]

\* Every question carries the same two options
TimedResults ==
    {[k \in 1..n |-> ServiceQuestion(k, <<<<"x">>, <<"y">>>>)] :
        n \in 0..MaxQuestions}

Init ==
    \E att \in Attendees, exam \in ExamIds, res \in TimedResults :
        Constructed(att, exam, res)

InitHandlers ==
    \E att \in Attendees, exam \in ExamIds,
       res \in ServiceResults(MaxQuestions, MaxOptions) :
        Constructed(att, exam, res)

InitSaves ==
    \E att \in Attendees, exam \in ExamIds,
       res \in ServiceResults(1, MaxOptions) :
        Constructed(att, exam, res)

InitLoad ==
    \E att \in Attendees, exam \in ExamIds,
       res \in ServiceResults(1, MaxLabelOptions) :
        Constructed(att, exam, res)

-----------------------------------------------------------------------------
(* connectedCallback, loadQuestions, startTimer                            *)

connectedCallback ==
    /\ ~connected
    /\ connected' = TRUE
    /\ IF examId # Undefined
       THEN /\ loadRequest' = "pending"
            /\ timerInterval' = "running"
       ELSE UNCHANGED <<loadRequest, timerInterval>>
    /\ UNCHANGED <<AttendeId, examId, serviceAnswer, questions, currentQuestionIndex,
                   unansweredQuestionNumbers, showResult, result, correct,
                   wrong, questionList, minutes, seconds, backend,
                   saveRequests, evaluateRequests, evaluatePending, toasts,
                   alerts, ticks, timeUps, submitInvoked>>

loadQuestionsThen ==
    /\ loadRequest = "pending"
    /\ loadRequest' = "resolved"
    /\ questionList' = TRUE
    /\ questions' = MapQuestions(backend)
    /\ UNCHANGED <<AttendeId, examId, serviceAnswer, currentQuestionIndex,
                   unansweredQuestionNumbers, showResult, result, correct,
                   wrong, minutes, seconds, timerInterval, connected, backend,
                   saveRequests, evaluateRequests, evaluatePending, toasts,
                   alerts, ticks, timeUps, submitInvoked>>

loadQuestionsCatch ==
    /\ loadRequest = "pending"
    /\ loadRequest' = "rejected"
    /\ UNCHANGED <<AttendeId, examId, serviceAnswer, questions, currentQuestionIndex,
                   unansweredQuestionNumbers, showResult, result, correct,
                   wrong, questionList, minutes, seconds, timerInterval,
                   connected, backend, saveRequests, evaluateRequests,
                   evaluatePending, toasts, alerts, ticks, timeUps,
                   submitInvoked>>

-----------------------------------------------------------------------------
(* handleOptionChange, handleReview, updateUnansweredTracking              *)

\* Variant: the number is pushed without the includes test
updateUnansweredTrackingPushAlways(qs, index, list) ==
    IF ~SomeChecked(qs[index + 1])
    THEN Append(list, index + 1)
    ELSE Filter(list, index + 1)

updateUnansweredTracking(qs, index, list) ==
    IF ~SomeChecked(qs[index + 1])
    THEN IF ~Includes(list, index + 1) THEN Append(list, index + 1) ELSE list
    ELSE Filter(list, index + 1)

CheckOptions(q, selectedOption) ==
    [i \in DOMAIN q.optionList |->
        LET isChecked == (q.optionList[i].value = selectedOption)
        IN [q.optionList[i] EXCEPT
              !.checked = isChecked,
              !.cssClass = IF isChecked THEN "option selected" ELSE "option"]]

\* Variant: an answer does not clear the review flag
UpdateBadgeKeepReviewed(q) ==
    IF SomeChecked(q)
    THEN [q EXCEPT !.badgeClass = "badge answered"]
    ELSE [q EXCEPT !.badgeClass = IF q.reviewed THEN "badge review"
                                  ELSE "badge unanswered"]

UpdateBadge(q) ==
    IF SomeChecked(q)
    THEN [q EXCEPT !.reviewed = FALSE, !.badgeClass = "badge answered"]
    ELSE [q EXCEPT !.badgeClass = IF q.reviewed THEN "badge review"
                                  ELSE "badge unanswered"]

OptionChanged(q, selectedOption) ==
    UpdateBadge([q EXCEPT !.optionList = CheckOptions(q, selectedOption)])

SaveRequest(q) ==
    [attendeeId |-> AttendeId,
     questionId |-> q.questionId,
     selectedAnswer |-> LabelPrefix(FindChecked(q)),
     examName |-> examId]

\* Variant: a new save takes the place of the ones still in flight
IssueSaveSuperseding(requests, request) == <<request>>

IssueSave(requests, request) == Append(requests, request)

\* handleOptionChange, with at most limit saves in flight
handleOptionChangeWithin(selectedOption, limit) ==
    /\ InProgressViewVisible
    /\ CurrentQuestionDefined
    /\ LET q == OptionChanged(questions[currentQuestionIndex + 1], selectedOption)
           qs == [questions EXCEPT ![currentQuestionIndex + 1] = q]
       IN /\ questions' = qs
          /\ unansweredQuestionNumbers' =
                updateUnansweredTracking(qs, currentQuestionIndex,
                                         unansweredQuestionNumbers)
          /\ IF SomeChecked(q)
             THEN /\ Len(saveRequests) < limit
                  /\ saveRequests' = IssueSave(saveRequests, SaveRequest(q))
             ELSE UNCHANGED saveRequests
    /\ UNCHANGED <<AttendeId, examId, serviceAnswer, currentQuestionIndex, showResult, result,
                   correct, wrong, questionList, minutes, seconds,
                   timerInterval, connected, backend, loadRequest,
                   evaluateRequests, evaluatePending, toasts, alerts, ticks,
                   timeUps, submitInvoked>>

handleOptionChange(selectedOption) ==
    handleOptionChangeWithin(selectedOption, MaxInFlight)

\* A save settles; what the service stored is not looked at
saveOrUpdateResponseSettled ==
    /\ \E i \in DOMAIN saveRequests :
          saveRequests' = SubSeq(saveRequests, 1, i - 1)
                            \o SubSeq(saveRequests, i + 1, Len(saveRequests))
    /\ UNCHANGED <<AttendeId, examId, serviceAnswer, questions, currentQuestionIndex,
                   unansweredQuestionNumbers, showResult, result, correct,
                   wrong, questionList, minutes, seconds, timerInterval,
                   connected, backend, loadRequest, evaluateRequests,
                   evaluatePending, toasts, alerts, ticks, timeUps,
                   submitInvoked>>

\* Variant: the flag is set and the badge is left as it was
ReviewedFlagOnly(q) == [q EXCEPT !.reviewed = TRUE]

WithoutRequest(requests, i) ==
    SubSeq(requests, 1, i - 1) \o SubSeq(requests, i + 1, Len(requests))

\* A save completes on the service, which keeps the answer of the save that
\* completed last, and its promise resolves
saveOrUpdateResponseStored ==
    /\ \E i \in DOMAIN saveRequests :
          /\ saveRequests' = WithoutRequest(saveRequests, i)
          /\ serviceAnswer' =
                [serviceAnswer EXCEPT ![saveRequests[i].questionId] =
                                          saveRequests[i].selectedAnswer]
    /\ UNCHANGED <<AttendeId, examId, questions, currentQuestionIndex,
                   unansweredQuestionNumbers, showResult, result, correct,
                   wrong, questionList, minutes, seconds, timerInterval,
                   connected, backend, loadRequest, evaluateRequests,
                   evaluatePending, toasts, alerts, ticks, timeUps,
                   submitInvoked>>

Reviewed(q) == [q EXCEPT !.reviewed = TRUE, !.badgeClass = "badge review"]

handleReview ==
    /\ InProgressViewVisible
    /\ CurrentQuestionDefined
    /\ questions' = [questions EXCEPT ![currentQuestionIndex + 1] = Reviewed(@)]
    /\ UNCHANGED <<AttendeId, examId, serviceAnswer, currentQuestionIndex,
                   unansweredQuestionNumbers, showResult, result, correct,
                   wrong, questionList, minutes, seconds, timerInterval,
                   connected, backend, loadRequest, saveRequests,
                   evaluateRequests, evaluatePending, toasts, alerts, ticks,
                   timeUps, submitInvoked>>

-----------------------------------------------------------------------------
(* Navigation                                                              *)

\* Variant: the increment is not guarded by the length
NextIndexUnguarded(index, len) == index + 1

NextIndex(index, len) == IF index < len - 1 THEN index + 1 ELSE index

PreviousIndex(index) == IF index > 0 THEN index - 1 ELSE index

handleNext ==
    /\ InProgressViewVisible
    /\ CurrentQuestionDefined
    /\ unansweredQuestionNumbers' =
          updateUnansweredTracking(questions, currentQuestionIndex,
                                   unansweredQuestionNumbers)
    /\ currentQuestionIndex' = NextIndex(currentQuestionIndex, Len(questions))
    /\ UNCHANGED <<AttendeId, examId, serviceAnswer, questions, showResult, result, correct,
                   wrong, questionList, minutes, seconds, timerInterval,
                   connected, backend, loadRequest, saveRequests,
                   evaluateRequests, evaluatePending, toasts, alerts, ticks,
                   timeUps, submitInvoked>>

handlePrevious ==
    /\ InProgressViewVisible
    /\ CurrentQuestionDefined
    /\ unansweredQuestionNumbers' =
          updateUnansweredTracking(questions, currentQuestionIndex,
                                   unansweredQuestionNumbers)
    /\ currentQuestionIndex' = PreviousIndex(currentQuestionIndex)
    /\ UNCHANGED <<AttendeId, examId, serviceAnswer, questions, showResult, result, correct,
                   wrong, questionList, minutes, seconds, timerInterval,
                   connected, backend, loadRequest, saveRequests,
                   evaluateRequests, evaluatePending, toasts, alerts, ticks,
                   timeUps, submitInvoked>>

\* Variant: the display number is used as the index
BadgeClickIndexNoOffset(dataIndex, current) ==
    LET index == ParseInt(dataIndex)
    IN IF ~index.nan THEN index.val ELSE current

BadgeClickIndex(dataIndex, current) ==
    LET index == ParseInt(dataIndex)
    IN IF ~index.nan THEN index.val - 1 ELSE current

handleBadgeClick(dataIndex) ==
    /\ InProgressViewVisible
    /\ currentQuestionIndex' = BadgeClickIndex(dataIndex, currentQuestionIndex)
    /\ UNCHANGED <<AttendeId, examId, serviceAnswer, questions, unansweredQuestionNumbers,
                   showResult, result, correct, wrong, questionList, minutes,
                   seconds, timerInterval, connected, backend, loadRequest,
                   saveRequests, evaluateRequests, evaluatePending, toasts,
                   alerts, ticks, timeUps, submitInvoked>>

-----------------------------------------------------------------------------
(* handleSubmit, showNotification, evaluateExamResult                      *)

\* Variant: the scan puts each number in front of the list
RECURSIVE CollectUnansweredDescending(_, _, _)
CollectUnansweredDescending(qs, index, list) ==
    IF index >= Len(qs) THEN list
    ELSE CollectUnansweredDescending(qs, index + 1,
            IF ~SomeChecked(qs[index + 1]) THEN <<index + 1>> \o list
            ELSE list)

RECURSIVE CollectUnanswered(_, _, _)
CollectUnanswered(qs, index, list) ==
    IF index >= Len(qs) THEN list
    ELSE CollectUnanswered(qs, index + 1,
            IF ~SomeChecked(qs[index + 1]) THEN Append(list, index + 1)
            ELSE list)

\* Variant: the interval is never cancelled
ClearIntervalNoop(handle) == handle

ClearInterval(handle) == IF handle = "running" THEN "cleared" ELSE handle

\* Variant: the two identifiers change places
EvaluateRequestSwapped == [attendeeId |-> examId, examName |-> AttendeId]

EvaluateRequest == [attendeeId |-> AttendeId, examName |-> examId]

\* The body of handleSubmit. handle is the timer handle at the call and
\* notifications the number of showNotification calls the caller makes after
\* handleSubmit returns.
handleSubmitBody(handle, notifications) ==
    LET unanswered == CollectUnanswered(questions, 0, <<>>)
    IN /\ timerInterval' = ClearInterval(handle)
       /\ unansweredQuestionNumbers' = unanswered
       /\ IF Len(unanswered) > 0
          THEN /\ toasts' = toasts + notifications
               /\ UNCHANGED <<questionList, evaluateRequests, evaluatePending>>
          ELSE /\ questionList' = FALSE
               /\ toasts' = toasts + 1 + notifications
               /\ evaluateRequests' = Append(evaluateRequests, EvaluateRequest)
               /\ evaluatePending' = evaluatePending + 1

handleSubmit ==
    /\ InProgressViewVisible
    /\ handleSubmitBody(timerInterval, 0)
    /\ submitInvoked' = TRUE
    /\ UNCHANGED <<AttendeId, examId, serviceAnswer, questions, currentQuestionIndex,
                   showResult, result, correct, wrong, minutes, seconds,
                   connected, backend, loadRequest, saveRequests, alerts,
                   ticks, timeUps>>

evaluateExamResultThen(resultData) ==
    /\ evaluatePending > 0
    /\ evaluatePending' = evaluatePending - 1
    /\ result' = resultData.result
    /\ correct' = resultData.correctAnswers
    /\ wrong' = resultData.incorrectAnswers
    /\ showResult' = TRUE
    /\ UNCHANGED <<AttendeId, examId, serviceAnswer, questions, currentQuestionIndex,
                   unansweredQuestionNumbers, questionList, minutes, seconds,
                   timerInterval, connected, backend, loadRequest,
                   saveRequests, evaluateRequests, toasts, alerts, ticks,
                   timeUps, submitInvoked>>

evaluateExamResultCatch ==
    /\ evaluatePending > 0
    /\ evaluatePending' = evaluatePending - 1
    /\ alerts' = alerts + 1
    /\ UNCHANGED <<AttendeId, examId, serviceAnswer, questions, currentQuestionIndex,
                   unansweredQuestionNumbers, showResult, result, correct,
                   wrong, questionList, minutes, seconds, timerInterval,
                   connected, backend, loadRequest, saveRequests,
                   evaluateRequests, toasts, ticks, timeUps, submitInvoked>>

-----------------------------------------------------------------------------
(* startTimer's interval callback, handleTimeUp                            *)

\* Variant: the expiry test looks at the seconds only
TimeExpiredIgnoringMinutes == seconds = 0

TimeExpired == seconds = 0 /\ minutes = 0

handleTimeUp ==
    /\ alerts' = alerts + 1
    /\ handleSubmitBody(ClearInterval(timerInterval), 1)
    /\ timeUps' = timeUps + 1

timerTick ==
    /\ timerInterval = "running"
    /\ ticks' = ticks + 1
    /\ IF TimeExpired
       THEN /\ handleTimeUp
            /\ UNCHANGED <<minutes, seconds>>
       ELSE /\ IF seconds = 0
               THEN minutes' = minutes - 1 /\ seconds' = 59
               ELSE minutes' = minutes /\ seconds' = seconds - 1
            /\ UNCHANGED <<unansweredQuestionNumbers, questionList,
                           timerInterval, evaluateRequests, evaluatePending,
                           toasts, alerts, timeUps>>
    /\ UNCHANGED <<AttendeId, examId, serviceAnswer, questions, currentQuestionIndex,
                   showResult, result, correct, wrong, connected, backend,
                   loadRequest, saveRequests, submitInvoked>>

-----------------------------------------------------------------------------
(* The component and its environment                                       *)

Next ==
    \/ connectedCallback
    \/ loadQuestionsThen
    \/ loadQuestionsCatch
    \/ \E selectedOption \in OptionTexts : handleOptionChange(selectedOption)
    \/ saveOrUpdateResponseSettled
    \/ handleReview
    \/ handleNext
    \/ handlePrevious
    \/ \E dataIndex \in DataIndexes : handleBadgeClick(dataIndex)
    \/ handleSubmit
    \/ \E resultData \in ResultData : evaluateExamResultThen(resultData)
    \/ evaluateExamResultCatch
    \/ timerTick

Spec == Init /\ [][Next]_vars

\* setInterval runs its callback every 1000 ms for as long as the interval
\* is not cleared
FairSpec == Spec /\ WF_vars(timerTick)

\* The handlers and the service's replies, up to the first timer tick
NextHandlers ==
    \/ connectedCallback
    \/ loadQuestionsThen
    \/ loadQuestionsCatch
    \/ \E selectedOption \in OptionTexts : handleOptionChange(selectedOption)
    \/ saveOrUpdateResponseSettled
    \/ handleReview
    \/ handleNext
    \/ handlePrevious
    \/ \E dataIndex \in DataIndexes : handleBadgeClick(dataIndex)
    \/ handleSubmit
    \/ \E resultData \in ResultData : evaluateExamResultThen(resultData)
    \/ evaluateExamResultCatch

SpecHandlers == InitHandlers /\ [][NextHandlers]_vars

\* Answering, with saves that race and a service that keeps the answer of
\* the save that completed last
NextSaves ==
    \/ connectedCallback
    \/ loadQuestionsThen
    \/ loadQuestionsCatch
    \/ \E selectedOption \in OptionTexts :
          handleOptionChangeWithin(selectedOption, MaxRacingSaves)
    \/ saveOrUpdateResponseStored
    \/ handleReview

SpecSaves == InitSaves /\ [][NextSaves]_vars

\* Mounting and the load request alone
NextLoad ==
    \/ connectedCallback
    \/ loadQuestionsThen
    \/ loadQuestionsCatch

SpecLoad == InitLoad /\ [][NextLoad]_vars

-----------------------------------------------------------------------------
(* Properties                                                              *)

Range(list) == {list[i] : i \in DOMAIN list}

StrictlyAscending(list) ==
    \A i, j \in DOMAIN list : i < j => list[i] < list[j]

UnansweredNumbers(qs) == {k \in DOMAIN qs : ~SomeChecked(qs[k])}

CheckedCount(q) ==
    Cardinality({i \in DOMAIN q.optionList : q.optionList[i].checked})

\* A step that runs handleSubmit: the submit button, or the expired timer
SubmitCalled == handleSubmit \/ (timerTick /\ TimeExpired)

\* C1: a submit while some question has no selected option issues no grading
\* request, leaves the in-progress view visible and makes the unanswered
\* list the ascending, duplicate-free list of exactly the display numbers of
\* the questions without a selected option.
C1_SubmitWithUnanswered ==
    [][(SubmitCalled /\ UnansweredNumbers(questions) # {}) =>
          /\ evaluateRequests' = evaluateRequests
          /\ evaluatePending' = evaluatePending
          /\ questionList' = TRUE
          /\ StrictlyAscending(unansweredQuestionNumbers')
          /\ Range(unansweredQuestionNumbers') = UnansweredNumbers(questions')
      ]_vars

C1_Witness ==
    /\ submitInvoked
    /\ questionList
    /\ evaluateRequests = <<>>
    /\ Len(questions) = 2
    /\ SomeChecked(questions[1])
    /\ unansweredQuestionNumbers = <<2>>

\* C2: a submit while every question has a selected option issues exactly
\* one grading request, carrying the component's attendee and exam
\* identifiers.
C2_SubmitAllAnswered ==
    [][(SubmitCalled /\ UnansweredNumbers(questions) = {}) =>
          /\ evaluateRequests' =
                Append(evaluateRequests,
                       [attendeeId |-> AttendeId, examName |-> examId])
          /\ evaluatePending' = evaluatePending + 1
      ]_vars

C2_Witness ==
    /\ submitInvoked
    /\ Len(questions) = 2
    /\ UnansweredNumbers(questions) = {}
    /\ evaluateRequests = <<[attendeeId |-> "att1", examName |-> "exam1"]>>

\* C3: every question has at most one option with checked = true, also when
\* two options of a question carry the same value.
C3_AtMostOneChecked ==
    \A k \in DOMAIN questions : CheckedCount(questions[k]) <= 1

\* C4: without an explicit submit the timer ticks at most 121 times; each of
\* the first 120 ticks only takes one second off the budget, the 121st finds
\* minutes = 0 and seconds = 0, stops the timer and calls handleTimeUp once,
\* and nothing ticks afterwards; once started, the timer does reach its
\* 121st tick unless the submit button is used first.
C4_TimerRun ==
    /\ (connected /\ examId # Undefined) ~> (submitInvoked \/ ticks = 121)
    /\ [](~submitInvoked =>
            /\ ticks <= 121
            /\ ticks <= 120 =>
                  (timeUps = 0 /\ 60 * minutes + seconds = 120 - ticks)
            /\ ticks = 121 =>
                  (timeUps = 1 /\ minutes = 0 /\ seconds = 0
                     /\ timerInterval = "cleared"))
    /\ [][(~submitInvoked' /\ ticks' # ticks /\ ticks < 120) =>
            /\ ticks' = ticks + 1
            /\ 60 * minutes' + seconds' = 60 * minutes + seconds - 1
            /\ UNCHANGED <<questions, currentQuestionIndex,
                           unansweredQuestionNumbers, questionList,
                           timerInterval, evaluateRequests, toasts, alerts>>
         ]_vars

C4_Witness == ~submitInvoked /\ ticks = 121 /\ timeUps = 1

\* C5: once handleSubmit has been called from the submit button the timer is
\* stopped: no later step ticks, changes minutes or seconds, or calls
\* handleTimeUp.
C5_SubmitStopsTimer ==
    /\ [](submitInvoked => timerInterval # "running")
    /\ [][submitInvoked =>
            /\ ticks' = ticks
            /\ minutes' = minutes
            /\ seconds' = seconds
            /\ timeUps' = timeUps
         ]_vars

C5_Witness ==
    /\ submitInvoked
    /\ timerInterval = "cleared"
    /\ ticks > 0
    /\ unansweredQuestionNumbers # <<>>

BadgeBySelectionFirst(q) ==
    IF SomeChecked(q) THEN "badge answered"
    ELSE IF q.reviewed THEN "badge review"
    ELSE "badge unanswered"

BadgeByReviewFirst(q) ==
    IF q.reviewed THEN "badge review"
    ELSE IF SomeChecked(q) THEN "badge answered"
    ELSE "badge unanswered"

\* C6 as stated: the badge of every question is "answered" if some option is
\* selected, otherwise "review" if reviewed, otherwise "unanswered".
C6_BadgeSelectionFirst ==
    \A k \in DOMAIN questions :
        questions[k].badgeClass = BadgeBySelectionFirst(questions[k])

\* C6 as amended: the badge of every question is "review" if the question is
\* reviewed, otherwise "answered" if some option is selected, otherwise
\* "unanswered".
C6_BadgeReviewFirst ==
    \A k \in DOMAIN questions :
        questions[k].badgeClass = BadgeByReviewFirst(questions[k])

C6_Witness ==
    \E k \in DOMAIN questions :
        /\ SomeChecked(questions[k])
        /\ questions[k].reviewed
        /\ questions[k].badgeClass = "badge review"

HasValue(q, v) == \E i \in DOMAIN q.optionList : q.optionList[i].value = v

\* C7: handleOptionChange with the value of one of the current question's
\* options, on a question that is reviewed and has the "review" badge, leaves
\* the question with the "answered" badge and reviewed = false.
C7_SelectOnReviewed ==
    [][\A v \in OptionTexts :
          (/\ handleOptionChange(v)
           /\ questions[currentQuestionIndex + 1].reviewed
           /\ questions[currentQuestionIndex + 1].badgeClass = "badge review"
           /\ HasValue(questions[currentQuestionIndex + 1], v)) =>
              /\ questions'[currentQuestionIndex + 1].badgeClass
                    = "badge answered"
              /\ ~questions'[currentQuestionIndex + 1].reviewed
      ]_vars

C7_Witness ==
    /\ CurrentQuestionDefined
    /\ questions[currentQuestionIndex + 1].reviewed
    /\ questions[currentQuestionIndex + 1].badgeClass = "badge review"
    /\ ~SomeChecked(questions[currentQuestionIndex + 1])
    /\ HasValue(questions[currentQuestionIndex + 1], <<"x">>)
    /\ ENABLED handleOptionChange(<<"x">>)

\* C8: once a non-empty question list is loaded, the pointer is an index of
\* the list.
C8_PointerInRange ==
    Len(questions) > 0 =>
        (0 <= currentQuestionIndex /\ currentQuestionIndex < Len(questions))

DisplayNumbers == (1..(MaxQuestions + 1)) \cup {10}

NotNumeric == {<<"a", "b", "c">>, <<>>}

\* C9: handleBadgeClick with the decimal text of display number d sets the
\* pointer to d - 1; with a text that is not a number it leaves the pointer
\* unchanged; in both cases no question, no unanswered-list entry and no
\* request changes.
C9_JumpTo ==
    [][/\ \A d \in DisplayNumbers :
             handleBadgeClick(ToDecimal(d)) => currentQuestionIndex' = d - 1
       /\ \A s \in NotNumeric :
             handleBadgeClick(s) => currentQuestionIndex' = currentQuestionIndex
       /\ \A s \in DataIndexes :
             handleBadgeClick(s) =>
                UNCHANGED <<questions, unansweredQuestionNumbers, loadRequest,
                            saveRequests, evaluateRequests, evaluatePending>>
      ]_vars

C9_Witness ==
    /\ Len(questions) = 2
    /\ currentQuestionIndex = 2
    /\ UnansweredNumbers(questions) = {1}

Alphabet == <<"A", "B", "C", "D", "E", "F", "G", "H">>

\* C10: after a successful load question k (from 0) has display number
\* k + 1, the "unanswered" badge and reviewed = false, and its option i (from
\* 0) is not checked and is labelled with the i-th letter of the alphabet, a
\* colon, a space and the option text, in the order returned.
C10_LoadedQuestions ==
    loadRequest = "resolved" =>
        /\ Len(questions) = Len(backend)
        /\ \A k \in DOMAIN questions :
              /\ questions[k].questionNumber = k
              /\ questions[k].badgeClass = "badge unanswered"
              /\ ~questions[k].reviewed
              /\ Len(questions[k].optionList) = Len(backend[k].options)
              /\ \A i \in DOMAIN questions[k].optionList :
                    /\ ~questions[k].optionList[i].checked
                    /\ questions[k].optionList[i].value = backend[k].options[i]
                    /\ questions[k].optionList[i].label =
                          <<Alphabet[i], ":", " ">> \o backend[k].options[i]

-----------------------------------------------------------------------------
(* The session as a whole                                                  *)

\* evaluateExamResult calls that were rejected: every alert is either the
\* one of handleTimeUp or the one of the catch callback
EvaluateFailures == alerts - timeUps

\* C11: over the whole life of the component at most one grading request is
\* issued.
C11_AtMostOneEvaluate == Len(evaluateRequests) <= 1

\* C12: once a submit has passed validation and hidden the in-progress view,
\* no later step shows the view again or changes the questions, the
\* selections, the review flags or the pointer, and the result display only
\* goes from off to on, together with the result fields.
C12_FinalAfterSubmit ==
    [][(evaluateRequests # <<>> /\ ~questionList) =>
          /\ ~questionList'
          /\ UNCHANGED <<questions, currentQuestionIndex>>
          /\ (showResult => UNCHANGED <<showResult, result, correct, wrong>>)
      ]_vars

\* C13: once a grading request has failed there is still only the one
\* grading request, the result display is off with the result fields at
\* their initial values, and the in-progress view is hidden.
C13_AfterEvaluateFailure ==
    EvaluateFailures > 0 =>
        /\ Len(evaluateRequests) = 1
        /\ ~showResult /\ result = "" /\ correct = 0 /\ wrong = 0
        /\ ~questionList

\* The unanswered list after tracking was brought in line with question
\* number n: n is listed exactly if the question has no selected option, and
\* the other numbers are listed as before
TrackedFor(n, before, after) ==
    /\ (n \in Range(after)) <=> ~SomeChecked(questions[n])
    /\ \A other \in (Range(before) \cup Range(after)) \ {n} :
          (other \in Range(after)) <=> (other \in Range(before))

\* C14: handleNext and handlePrevious bring the unanswered list in line with
\* the question being left, move the pointer by one only where the result is
\* an index of the list (otherwise leave it), and change no selection, review
\* flag or badge and issue no request.
C14_Navigation ==
    [][/\ handleNext =>
             /\ TrackedFor(currentQuestionIndex + 1,
                           unansweredQuestionNumbers,
                           unansweredQuestionNumbers')
             /\ currentQuestionIndex' =
                   IF currentQuestionIndex + 1 <= Len(questions) - 1
                   THEN currentQuestionIndex + 1 ELSE currentQuestionIndex
       /\ handlePrevious =>
             /\ TrackedFor(currentQuestionIndex + 1,
                           unansweredQuestionNumbers,
                           unansweredQuestionNumbers')
             /\ currentQuestionIndex' =
                   IF currentQuestionIndex - 1 >= 0
                   THEN currentQuestionIndex - 1 ELSE currentQuestionIndex
       /\ (handleNext \/ handlePrevious) =>
             UNCHANGED <<questions, loadRequest, saveRequests,
                         evaluateRequests, evaluatePending>>
      ]_vars

\* The last question, unanswered and not yet listed, with handleNext enabled
C14_Witness ==
    /\ Len(questions) = 2
    /\ currentQuestionIndex = 1
    /\ ~SomeChecked(questions[2])
    /\ ~Includes(unansweredQuestionNumbers, 2)
    /\ ENABLED handleNext

\* The letter sent for value v of question q: that of the first option
\* carrying v
LetterOf(q, v) ==
    <<Alphabet[CHOOSE i \in DOMAIN q.optionList :
                  /\ q.optionList[i].value = v
                  /\ \A j \in DOMAIN q.optionList :
                        q.optionList[j].value = v => i <= j]>>

\* C15: saves are not sequenced: an answer is sent at once, whatever saves
\* are still in flight, and those stay in flight; the witness is the state in
\* which A then B were selected, both saves have completed, B is selected
\* and the service holds A.
C15_SavesNotSequenced ==
    [][\A v \in OptionTexts :
          (/\ handleOptionChangeWithin(v, MaxRacingSaves)
           /\ HasValue(questions[currentQuestionIndex + 1], v)) =>
              saveRequests' =
                 Append(saveRequests,
                        [attendeeId |-> AttendeId,
                         questionId |->
                            questions[currentQuestionIndex + 1].questionId,
                         selectedAnswer |->
                            LetterOf(questions[currentQuestionIndex + 1], v),
                         examName |-> examId])
      ]_vars

C15_Witness ==
    /\ Len(questions) = 1
    /\ Len(questions[1].optionList) = 2
    /\ ~questions[1].optionList[1].checked
    /\ questions[1].optionList[2].checked
    /\ saveRequests = <<>>
    /\ serviceAnswer[1] = <<"A">>

\* C16: when the timer expires the attempt ends, however many questions are
\* answered: the expiring tick hides the in-progress view and issues a
\* grading request.
C16_ExpiryEndsAttempt ==
    [][(timerTick /\ TimeExpired) =>
          /\ ~questionList'
          /\ Len(evaluateRequests') = Len(evaluateRequests) + 1
      ]_vars

\* C17: a grading request is issued only where the questions are loaded, the
\* list is not empty and every question has a selected option.
C17_EvaluateOnlyWhenAnswered ==
    [][evaluateRequests' # evaluateRequests =>
          /\ loadRequest = "resolved"
          /\ allQuestionsAnswered
      ]_vars

\* C18: as many "submitted successfully" notifications have been dispatched
\* as grading requests have been issued.
C18_ToastPerEvaluate == toasts = Len(evaluateRequests)

\* C19: a grading request is issued only while no save is in flight.
C19_NoSaveInFlightAtEvaluate ==
    [][evaluateRequests' # evaluateRequests => saveRequests = <<>>]_vars

NoDuplicates(list) ==
    \A i, j \in DOMAIN list : list[i] = list[j] => i = j

\* C20: the unanswered list holds no number twice, and each of its entries
\* is the display number of a loaded question that has no selected option
\* (it need not hold every such number).
C20_UnansweredListSound ==
    /\ NoDuplicates(unansweredQuestionNumbers)
    /\ Range(unansweredQuestionNumbers) \subseteq 1..Len(questions)
    /\ Range(unansweredQuestionNumbers) \subseteq UnansweredNumbers(questions)

\* Question 2 was left unanswered and is listed; question 1 is unanswered
\* too, was never left, and is not listed
C20_Witness ==
    /\ Len(questions) = 2
    /\ ~SomeChecked(questions[1])
    /\ ~SomeChecked(questions[2])
    /\ unansweredQuestionNumbers = <<2>>
    /\ currentQuestionIndex = 0

====
